---- MODULE Spec2Model ----
(***************************************************************************)
(* Connection manager of internal/acServer (tcp.go): the accept loop, the  *)
(* per-connection read loop with its closer channel, handleConnection and  *)
(* closeTCPConnection.  Every task position is a line of TCP.Listen.       *)
(* The Resolver of resolver.go: its memo fields and resolve methods.       *)
(***************************************************************************)
EXTENDS Integers, Sequences, FiniteSets, TLC

\* ------------------------------------------------------------- bounds
MaxConns     == 2   \* connections the accept loop accepts
NumSlots     == 1   \* car slots of the server state
MaxFrames    == 1   \* frames a peer sends, two-connection runs
MaxWireFrames == 2  \* frames the peer sends, single-connection framing runs
MaxFrameLen  == 3   \* largest declared frame length a peer sends
MaxCloseReqs == 1   \* closeTCPConnection calls by external actors, per connection
MaxTCPCloses == 3   \* TCP.Close() calls, shutdown runs
MaxResolveCalls == 3 \* resolve calls made on a Resolver after NewResolver
MaxDepth     == 12  \* nesting of resolve calls the stack holds

\* ---------------------------------------------------- program constants
CloserCap == 1      \* make(chan struct{}, 1)
ClosedCap == 1      \* closed: make(chan struct{}, 1)
LenBytes  == 2      \* sizeof(uint16) read by binary.Read
ByteBase  == 256    \* binary.LittleEndian: second byte weighs 256
NoConn    == 0      \* Connection{}: the slot has no connection
NoCar     == 0      \* GetCarByTCPConn returned nil

\* message types (first payload byte); values are abstract stand-ins
UnknownType   == 0  \* no handler registered
HandshakeType == 1  \* HandshakeMessageHandler
UpdateType    == 2  \* TyreChange / LapCompleted / SectorSplit / ... handlers

\* the truncated frame of the reset scenario
ScenarioLen  == 10  \* declared frame length
ScenarioSent == 3   \* payload bytes the peer writes before it resets

Conns == 1..MaxConns
Slots == 1..NumSlots
Bytes == 0..2

\* what a read or a handler can fail with: a *net.OpError that is Temporary()
\* (a timeout), a *net.OpError that is not (a reset), io.EOF, and a handler's
\* own error value
ErrKinds == {"temporary", "permanent", "eof"}
PermanentKinds == {"permanent"}

VARIABLES
    accepted,   \* number of connections the accept loop has accepted
    pc,         \* position of each connection's read-loop task
    closer,     \* tokens buffered in conn.closer
    blocked,    \* external actors blocked in closeTCPConnection's send
    reqs,       \* closeTCPConnection calls made by external actors
    transport,  \* "open" | "closed": the wrapped net.Conn
    closeCalls, \* invocations of conn.Close()
    released,   \* invocations of conn.Close() that found the transport open
    cleanups,   \* executions of the closer branch
    stream,     \* bytes the peer has sent that the task has not read
    msgLen,     \* messageLength of the frame being read
    carRef,     \* car found by GetCarByTCPConn in the closer branch
    cars,       \* ServerState: slot -> [conn, data]
    last,       \* outcome of the task's latest read / dispatch
    sent,       \* message types of the frames the peer sent, in order
    delivered,  \* <<type, payload length, declared length>> per dispatch
    handlerMap, \* t.messageHandlers: message type -> handler
    reset,      \* the peer has reset the connection
    acceptPc,   \* accept loop: "accepting" | "failed" | "stopped"
    lastAccept, \* what the accept loop did with its latest accept failure
    closedCh,   \* tokens buffered in t.closed
    listener,   \* "open" | "closed": t.listener
    tcpCloses,  \* TCP.Close() calls started
    closeWait,  \* TCP.Close() callers blocked in the send on t.closed
    closeSent,  \* TCP.Close() callers past the send, before listener.Close()
    rPhase,     \* Resolver: "none" | "ready" | "failed" | "crashed"
    rPerf,      \* config.Server.PerformanceMode
    rCalls,     \* resolve calls made after NewResolver
    rFields,    \* the Resolver's memo fields: component -> instance, Nil when unset
    rBuilt,     \* constructor calls per component
    rWired,     \* <<consumer, dependency>> -> instance the consumer was given
    rOverflow   \* the nesting of resolve calls has exhausted the stack

\* the listener's part of the state
lvars == <<acceptPc, lastAccept, closedCh, listener, tcpCloses, closeWait, closeSent>>

\* the Resolver's part of the state
rvars == <<rPhase, rPerf, rCalls, rFields, rBuilt, rWired, rOverflow>>

\* what the per-connection operations never write
others == <<handlerMap, reset, lvars, rvars>>

vars == <<accepted, pc, closer, blocked, reqs, transport, closeCalls, released, cleanups,
          stream, msgLen, carRef, cars, last, sent, delivered, others>>

\* keys of t.messageHandlers
messageHandlers == DOMAIN handlerMap

\* ------------------------------------------------------------ helpers
EmptyCar == [conn |-> NoConn, data |-> 0]

\* ServerState.GetCarByTCPConn
GetCarByTCPConn(c) ==
    IF \E s \in Slots : cars[s].conn = c
    THEN CHOOSE s \in Slots : cars[s].conn = c
    ELSE NoCar

\* binary.LittleEndian.Uint16
Uint16(b) == b[1] + ByteBase * b[2]

\* NewPacket(buf[:n]); p.Read(&messageType)
MessageTypeOf(buf) == IF Len(buf) = 0 THEN UnknownType ELSE buf[1]

Min(a, b) == IF a < b THEN a ELSE b

Drop(s, n) == SubSeq(s, n + 1, Len(s))

\* a frame as the peer encodes it: 2-byte little-endian length, type, payload
Frame(t, payload) ==
    <<(1 + Len(payload)) % ByteBase, (1 + Len(payload)) \div ByteBase, t>> \o payload

Payloads == UNION {[1..n -> Bytes] : n \in 0..(MaxFrameLen - 1)}

\* frames of the two-connection runs: a type byte and no payload
ShortFrames == {Frame(t, <<>>) : t \in Bytes}
\* frames of the framing runs: every type, every payload up to MaxFrameLen
WireFrames == {Frame(t, p) : t \in Bytes, p \in Payloads}

\* ------------------------------------------------------------ Resolver
Nil == 0            \* a memo field that is not set

\* the components the Resolver builds, named by their memo fields
Comps ==
    {"serverProcess", "udpPluginAdapter", "contentManagerWrapper", "raceManager",
     "baseHandler", "customRaceHandler", "accountManager", "accountHandler",
     "quickRaceHandler", "auditLogHandler", "carManager", "carsHandler",
     "championshipManager", "championshipsHandler", "trackManager", "tracksHandler",
     "weatherHandler", "penaltiesHandler", "penaltiesManager", "resultsHandler",
     "scheduledRacesManager", "scheduledRacesHandler", "serverAdministrationHandler",
     "blockListManager", "contentUploadHandler", "raceControlHub", "raceControl",
     "raceControlHandler", "raceWeekendManager", "raceWeekendHandler",
     "customChecksumHandler", "discordManager", "notificationManager",
     "strackerHandler", "healthCheck", "kissMyRankHandler", "realPenaltyHandler",
     "viewRenderer"}

\* the resolve calls in the constructor arguments of each resolve method, in
\* evaluation order; r.store, r.acsrClient and r.viewRenderer are field reads
Args(c) ==
    CASE c = "serverProcess" -> <<"contentManagerWrapper">>
      [] c = "udpPluginAdapter" ->
            <<"raceManager", "raceControl", "championshipManager", "raceWeekendManager",
              "contentManagerWrapper">>
      [] c = "contentManagerWrapper" -> <<"carManager", "trackManager">>
      [] c = "raceManager" ->
            <<"serverProcess", "carManager", "trackManager", "notificationManager",
              "raceControl">>
      [] c = "customRaceHandler" ->
            <<"baseHandler", "raceManager", "championshipManager", "raceWeekendManager">>
      [] c = "accountHandler" -> <<"baseHandler", "accountManager">>
      [] c = "quickRaceHandler" -> <<"baseHandler", "raceManager">>
      [] c = "auditLogHandler" -> <<"baseHandler">>
      [] c = "carManager" -> <<"trackManager">>
      [] c = "carsHandler" -> <<"baseHandler", "carManager">>
      [] c = "championshipManager" -> <<"raceManager">>
      [] c = "championshipsHandler" -> <<"baseHandler", "championshipManager">>
      [] c = "tracksHandler" -> <<"baseHandler", "trackManager">>
      [] c = "weatherHandler" -> <<"baseHandler">>
      [] c = "penaltiesHandler" -> <<"baseHandler", "penaltiesManager">>
      [] c = "resultsHandler" -> <<"baseHandler">>
      [] c = "scheduledRacesHandler" -> <<"baseHandler", "scheduledRacesManager">>
      [] c = "serverAdministrationHandler" ->
            <<"baseHandler", "raceManager", "championshipManager", "raceWeekendManager",
              "blockListManager", "serverProcess">>
      [] c = "contentUploadHandler" -> <<"baseHandler", "carManager", "trackManager">>
      [] c = "raceControl" -> <<"raceControlHub", "serverProcess", "penaltiesManager">>
      [] c = "raceControlHandler" ->
            <<"baseHandler", "raceManager", "raceControl", "raceControlHub", "serverProcess">>
      [] c = "raceWeekendManager" ->
            <<"raceManager", "championshipManager", "serverProcess", "notificationManager",
              "carManager">>
      [] c = "raceWeekendHandler" -> <<"baseHandler", "raceWeekendManager">>
      [] c = "customChecksumHandler" -> <<"baseHandler">>
      [] c = "discordManager" -> <<"scheduledRacesManager">>
      [] c = "notificationManager" -> <<"discordManager", "carManager">>
      [] c = "strackerHandler" -> <<"baseHandler">>
      [] c = "healthCheck" -> <<"raceControl", "serverProcess">>
      [] c = "kissMyRankHandler" -> <<"baseHandler">>
      [] c = "realPenaltyHandler" -> <<"baseHandler">>
      [] c = "viewRenderer" -> <<"serverProcess">>
      [] OTHER -> <<>>

\* the resolve calls a resolve method makes after it has assigned its memo
\* field: r.serverProcess.SetPlugin(r.resolveUDPPluginAdapter())
Post(c) == IF c = "serverProcess" THEN <<"udpPluginAdapter">> ELSE <<>>

\* the memo field whose being set makes the resolve method return early
Guard(c) == IF c = "penaltiesManager" THEN "penaltiesHandler" ELSE c

\* the handlers ResolveRouter resolves, in order
RouterHandlers ==
    <<"quickRaceHandler", "customRaceHandler", "championshipsHandler", "accountHandler",
      "auditLogHandler", "carsHandler", "tracksHandler", "weatherHandler",
      "penaltiesHandler", "resultsHandler", "contentUploadHandler",
      "serverAdministrationHandler", "raceControlHandler", "scheduledRacesHandler",
      "raceWeekendHandler", "customChecksumHandler", "strackerHandler", "healthCheck",
      "kissMyRankHandler", "realPenaltyHandler">>

Range(q) == {q[i] : i \in DOMAIN q}

\* who is handed whom
Edges ==
    {e \in Comps \X Comps : e[2] \in Range(Args(e[1])) \cup Range(Post(e[1]))}
        \cup {<<"router", h>> : h \in Range(RouterHandlers)}

\* the Resolver as the resolve methods see it: the memo fields, the
\* constructor calls made so far, who was handed what, whether the stack has
\* overflowed, and the value the last call returned
RState ==
    [fields |-> rFields, built |-> rBuilt, wired |-> rWired, perf |-> rPerf,
     overflow |-> rOverflow, ret |-> Nil]

RECURSIVE Resolve(_, _, _)
RECURSIVE ResolveAll(_, _, _, _)

\* the resolve calls among the arguments of consumer's constructor, left to right
ResolveAll(s, consumer, deps, fuel) ==
    IF deps = <<>> \/ s.overflow THEN s
    ELSE LET s1 == Resolve(s, Head(deps), fuel)
         IN ResolveAll([s1 EXCEPT !.wired[<<consumer, Head(deps)>>] = s1.ret],
                       consumer, Tail(deps), fuel)

\* a resolve method that assigns its memo field only after everything it
\* calls has returned
ResolveAssignLast(s, c, fuel) ==
    IF s.overflow THEN s
    ELSE IF fuel = 0 THEN [s EXCEPT !.overflow = TRUE]
    ELSE IF c = "raceControlHandler" /\ s.perf THEN [s EXCEPT !.ret = Nil]
    ELSE IF s.fields[Guard(c)] # Nil THEN [s EXCEPT !.ret = s.fields[c]]
    ELSE LET s1 == ResolveAll(s, c, Args(c) \o Post(c), fuel - 1)
         IN IF s1.overflow THEN s1
            ELSE [s1 EXCEPT !.built[c] = @ + 1,
                            !.fields[c] = s1.built[c] + 1,
                            !.ret = s1.built[c] + 1]

\* a resolve method: return the memo when its guard field is set, else
\* evaluate the arguments, construct, assign the memo field, make the calls
\* that follow the assignment and return the field
Resolve(s, c, fuel) ==
    IF s.overflow THEN s
    ELSE IF fuel = 0 THEN [s EXCEPT !.overflow = TRUE]
    ELSE IF c = "raceControlHandler" /\ s.perf THEN [s EXCEPT !.ret = Nil]
    ELSE IF s.fields[Guard(c)] # Nil THEN [s EXCEPT !.ret = s.fields[c]]
    ELSE LET s1 == ResolveAll(s, c, Args(c), fuel - 1)
         IN IF s1.overflow THEN s1
            ELSE LET s2 == [s1 EXCEPT !.built[c] = @ + 1, !.fields[c] = s1.built[c] + 1]
                     s3 == ResolveAll(s2, c, Post(c), fuel - 1)
                 IN [s3 EXCEPT !.ret = s3.fields[c]]

Put(m, k, v) == [x \in DOMAIN m \cup {k} |-> IF x = k THEN v ELSE m[x]]

\* the handler list of initMessageHandlers, one representative per message
\* type of the model
Handlers ==
    << [type |-> HandshakeType, name |-> "Handshake"],
       [type |-> UpdateType, name |-> "Update"] >>

\* lines 56-58: t.messageHandlers[handler.MessageType()] = handler, in list order
RECURSIVE Register(_, _)
Register(m, hs) ==
    IF hs = <<>> THEN m
    ELSE Register(Put(m, Head(hs).type, Head(hs).name), Tail(hs))

\* NewTCP: make(map[MessageType]TCPMessageHandler), then initMessageHandlers
InitMessageHandlers == Register(<<>>, Handlers)

Init ==
    /\ accepted = 0
    /\ pc = [c \in Conns |-> "idle"]
    /\ closer = [c \in Conns |-> 0]
    /\ blocked = [c \in Conns |-> 0]
    /\ reqs = [c \in Conns |-> 0]
    /\ transport = [c \in Conns |-> "open"]
    /\ closeCalls = [c \in Conns |-> 0]
    /\ released = [c \in Conns |-> 0]
    /\ cleanups = [c \in Conns |-> 0]
    /\ stream = [c \in Conns |-> <<>>]
    /\ msgLen = [c \in Conns |-> 0]
    /\ carRef = [c \in Conns |-> NoCar]
    /\ cars = [s \in Slots |-> EmptyCar]
    /\ last = [c \in Conns |-> "none"]
    /\ sent = [c \in Conns |-> <<>>]
    /\ delivered = [c \in Conns |-> <<>>]
    /\ handlerMap = InitMessageHandlers
    /\ reset = [c \in Conns |-> FALSE]
    /\ acceptPc = "accepting"
    /\ lastAccept = "none"
    /\ closedCh = 0
    /\ listener = "open"
    /\ tcpCloses = 0
    /\ closeWait = 0
    /\ closeSent = 0
    /\ rPhase = "none"
    /\ rPerf = FALSE
    /\ rCalls = 0
    /\ rFields = [c \in Comps |-> Nil]
    /\ rBuilt = [c \in Comps |-> 0]
    /\ rWired = [e \in Edges |-> Nil]
    /\ rOverflow = FALSE

\* ------------------------------------------------------- accept loop
\* lines 84-113: AcceptTCP succeeds, the tcpConn is built with an empty
\* closer of capacity 1 and its read-loop task is spawned
Accept(limit) ==
    /\ acceptPc = "accepting"
    /\ listener = "open"
    /\ accepted < limit
    /\ accepted' = accepted + 1
    /\ pc' = [pc EXCEPT ![accepted + 1] = "select"]
    /\ UNCHANGED <<closer, blocked, reqs, transport, closeCalls, released, cleanups, stream,
                   msgLen, carRef, cars, last, sent, delivered>>
    /\ UNCHANGED others

\* what every step of the listener leaves alone: the connections, the
\* dispatcher and the Resolver
conns == <<accepted, pc, closer, blocked, reqs, transport, closeCalls, released, cleanups,
           stream, msgLen, carRef, cars, last, sent, delivered, handlerMap, reset, rvars>>

\* line 84: AcceptTCP returns an error while the listener is open
AcceptFault ==
    /\ acceptPc = "accepting"
    /\ listener = "open"
    /\ acceptPc' = "failed"
    /\ UNCHANGED <<lastAccept, closedCh, listener, tcpCloses, closeWait, closeSent>>
    /\ UNCHANGED conns

\* line 84: AcceptTCP on a closed listener returns an error
AcceptClosed ==
    /\ acceptPc = "accepting"
    /\ listener = "closed"
    /\ acceptPc' = "failed"
    /\ UNCHANGED <<lastAccept, closedCh, listener, tcpCloses, closeWait, closeSent>>
    /\ UNCHANGED conns

\* the accept loop that takes every accept failure for a shutdown
AcceptSelectAlwaysStop ==
    /\ acceptPc = "failed"
    /\ closedCh' = IF closedCh > 0 THEN closedCh - 1 ELSE closedCh
    /\ acceptPc' = "stopped"
    /\ lastAccept' = "silent"
    /\ UNCHANGED <<listener, tcpCloses, closeWait, closeSent>>
    /\ UNCHANGED conns

\* lines 86-94: the non-blocking select on t.closed after a failed accept
AcceptSelect ==
    /\ acceptPc = "failed"
    /\ IF closedCh > 0
       THEN /\ closedCh' = closedCh - 1
            /\ acceptPc' = "stopped"
            /\ lastAccept' = "silent"
       ELSE /\ closedCh' = closedCh
            /\ acceptPc' = "accepting"
            /\ lastAccept' = "logged"
    /\ UNCHANGED <<listener, tcpCloses, closeWait, closeSent>>
    /\ UNCHANGED conns

\* TCP.Close, line 195: the send on t.closed completes when the channel has
\* room, else the caller blocks in it
TCPClose(limit) ==
    /\ tcpCloses < limit
    /\ tcpCloses' = tcpCloses + 1
    /\ IF closedCh < ClosedCap
       THEN closedCh' = closedCh + 1 /\ closeSent' = closeSent + 1 /\ closeWait' = closeWait
       ELSE closeWait' = closeWait + 1 /\ closedCh' = closedCh /\ closeSent' = closeSent
    /\ UNCHANGED <<acceptPc, lastAccept, listener>>
    /\ UNCHANGED conns

\* a caller blocked at line 195 proceeds once t.closed has room
TCPCloseUnblock ==
    /\ closeWait > 0
    /\ closedCh < ClosedCap
    /\ closedCh' = closedCh + 1
    /\ closeWait' = closeWait - 1
    /\ closeSent' = closeSent + 1
    /\ UNCHANGED <<acceptPc, lastAccept, listener, tcpCloses>>
    /\ UNCHANGED conns

\* a Close() that shuts the accepted connections down with the listener
TCPCloseListenerAndConns ==
    /\ closeSent > 0
    /\ listener' = "closed"
    /\ closeSent' = closeSent - 1
    /\ transport' = [c \in Conns |-> "closed"]
    /\ UNCHANGED <<acceptPc, lastAccept, closedCh, tcpCloses, closeWait>>
    /\ UNCHANGED <<accepted, pc, closer, blocked, reqs, closeCalls, released, cleanups,
                   stream, msgLen, carRef, cars, last, sent, delivered, handlerMap, reset, rvars>>

\* TCP.Close, line 197: t.listener.Close(), and Close returns
TCPCloseListener ==
    /\ closeSent > 0
    /\ listener' = "closed"
    /\ closeSent' = closeSent - 1
    /\ UNCHANGED <<acceptPc, lastAccept, closedCh, tcpCloses, closeWait>>
    /\ UNCHANGED conns

\* the peer writes one whole frame to the connection
PeerSend(c, f, limit) ==
    /\ pc[c] # "idle"
    /\ transport[c] = "open"
    /\ Len(sent[c]) < limit
    /\ stream' = [stream EXCEPT ![c] = @ \o f]
    /\ sent' = [sent EXCEPT ![c] = Append(@, f[3])]
    /\ UNCHANGED <<accepted, pc, closer, blocked, reqs, transport, closeCalls, released,
                   cleanups, msgLen, carRef, cars, last, delivered>>
    /\ UNCHANGED others

\* the peer declares a frame of ScenarioLen bytes, writes ScenarioSent of
\* them and resets the connection
PeerTruncate(c, t, rest) ==
    /\ pc[c] # "idle"
    /\ transport[c] = "open"
    /\ ~reset[c]
    /\ sent[c] = <<>>
    /\ stream' = [stream EXCEPT ![c] =
                     @ \o <<ScenarioLen % ByteBase, ScenarioLen \div ByteBase, t>> \o rest]
    /\ sent' = [sent EXCEPT ![c] = Append(@, t)]
    /\ reset' = [reset EXCEPT ![c] = TRUE]
    /\ UNCHANGED <<accepted, pc, closer, blocked, reqs, transport, closeCalls, released,
                   cleanups, msgLen, carRef, cars, last, delivered>>
    /\ UNCHANGED <<handlerMap, lvars, rvars>>

\* ------------------------------------------------- read loop, per task
\* line 117-119 / 132: the non-blocking select on conn.closer
Select(c) ==
    /\ pc[c] = "select"
    /\ IF closer[c] > 0
       THEN /\ closer' = [closer EXCEPT ![c] = @ - 1]
            /\ carRef' = [carRef EXCEPT ![c] = GetCarByTCPConn(c)]
            /\ cleanups' = [cleanups EXCEPT ![c] = @ + 1]
            /\ pc' = [pc EXCEPT ![c] = "closing"]
       ELSE /\ pc' = [pc EXCEPT ![c] = "readLen"]
            /\ UNCHANGED <<closer, carRef, cleanups>>
    /\ UNCHANGED <<accepted, blocked, reqs, transport, closeCalls, released, stream, msgLen,
                   cars, last, sent, delivered>>
    /\ UNCHANGED others

\* conn.Close(), promoted from the embedded net.Conn: the first call closes
\* the socket and drops what it had buffered, a later call only returns an error
NetClose(c) ==
    /\ closeCalls' = [closeCalls EXCEPT ![c] = @ + 1]
    /\ released' = [released EXCEPT ![c] = IF transport[c] = "open" THEN @ + 1 ELSE @]
    /\ transport' = [transport EXCEPT ![c] = "closed"]
    /\ stream' = [stream EXCEPT ![c] = <<>>]

\* lines 121-125: conn.Close() in the closer branch
CloseTransport(c) ==
    /\ pc[c] = "closing"
    /\ NetClose(c)
    /\ pc' = [pc EXCEPT ![c] = "release"]
    /\ UNCHANGED <<accepted, closer, blocked, reqs, cleanups, msgLen,
                   carRef, cars, last, sent, delivered>>
    /\ UNCHANGED others

\* the closer branch without its return: the task goes round the loop again
ReleaseCarNoReturn(c) ==
    /\ pc[c] = "release"
    /\ cars' = IF carRef[c] # NoCar
               THEN [cars EXCEPT ![carRef[c]].conn = NoConn]
               ELSE cars
    /\ pc' = [pc EXCEPT ![c] = "select"]
    /\ UNCHANGED <<accepted, closer, blocked, reqs, transport, closeCalls, released,
                   cleanups, stream, msgLen, carRef, last, sent, delivered>>
    /\ UNCHANGED others

\* a closer branch that resets every car of the server state
ReleaseCarAll(c) ==
    /\ pc[c] = "release"
    /\ cars' = [s \in Slots |-> [cars[s] EXCEPT !.conn = NoConn]]
    /\ pc' = [pc EXCEPT ![c] = "deferred"]
    /\ UNCHANGED <<accepted, closer, blocked, reqs, transport, closeCalls, released, cleanups,
                   stream, msgLen, carRef, last, sent, delivered>>
    /\ UNCHANGED others

\* lines 127-131: car.Connection = Connection{} and return
ReleaseCar(c) ==
    /\ pc[c] = "release"
    /\ cars' = IF carRef[c] # NoCar
               THEN [cars EXCEPT ![carRef[c]].conn = NoConn]
               ELSE cars
    /\ pc' = [pc EXCEPT ![c] = "deferred"]
    /\ UNCHANGED <<accepted, closer, blocked, reqs, transport, closeCalls, released, cleanups,
                   stream, msgLen, carRef, last, sent, delivered>>
    /\ UNCHANGED others

\* line 114: the deferred conn.Close() runs when the task returns
DeferredClose(c) ==
    /\ pc[c] = "deferred"
    /\ NetClose(c)
    /\ pc' = [pc EXCEPT ![c] = "done"]
    /\ UNCHANGED <<accepted, closer, blocked, reqs, cleanups, msgLen,
                   carRef, cars, last, sent, delivered>>
    /\ UNCHANGED others

\* where the task goes after a failed read or a failed handleConnection
\* (lines 136-142 and 146-152): a permanent *net.OpError sends on closer and
\* continues, anything else is logged and the task returns
AfterError(kind) == IF kind \in PermanentKinds THEN "signal" ELSE "deferred"

\* line 133-135: binary.Read fills the two length bytes
ReadLength(c) ==
    /\ pc[c] = "readLen"
    /\ Len(stream[c]) >= LenBytes
    /\ msgLen' = [msgLen EXCEPT ![c] = Uint16(stream[c])]
    /\ stream' = [stream EXCEPT ![c] = Drop(@, LenBytes)]
    /\ pc' = [pc EXCEPT ![c] = "readMsg"]
    /\ UNCHANGED <<accepted, closer, blocked, reqs, transport, closeCalls, released, cleanups,
                   carRef, cars, last, sent, delivered>>
    /\ UNCHANGED others

\* lines 135-143: binary.Read fails
ReadLengthError(c, kind) ==
    /\ pc[c] = "readLen"
    /\ kind = "eof" => Len(stream[c]) < LenBytes
    /\ last' = [last EXCEPT ![c] = kind]
    /\ pc' = [pc EXCEPT ![c] = AfterError(kind)]
    /\ UNCHANGED <<accepted, closer, blocked, reqs, transport, closeCalls, released, cleanups,
                   stream, msgLen, carRef, cars, sent, delivered>>
    /\ UNCHANGED others

\* lines 137, 147 and 215 (from a handler): the send on conn.closer
Signal(c) ==
    /\ pc[c] = "signal"
    /\ closer[c] < CloserCap
    /\ closer' = [closer EXCEPT ![c] = @ + 1]
    /\ pc' = [pc EXCEPT ![c] = "select"]
    /\ UNCHANGED <<accepted, blocked, reqs, transport, closeCalls, released, cleanups, stream,
                   msgLen, carRef, cars, last, sent, delivered>>
    /\ UNCHANGED others

\* ------------------------------------------------------------ handlers
HandlerResults == {"ok", "error", "neterror"}

FreeSlots == {s \in Slots : cars[s].conn = NoConn}

\* HandshakeMessageHandler.OnMessage: allocate an unoccupied slot, or reject
\* and close the connection
Handshake(c) ==
    IF GetCarByTCPConn(c) # NoCar
    THEN /\ cars' = cars
         /\ last' = [last EXCEPT ![c] = "ok"]
         /\ pc' = [pc EXCEPT ![c] = "select"]
    ELSE IF FreeSlots # {}
    THEN /\ cars' = [cars EXCEPT ![CHOOSE s \in FreeSlots : \A r \in FreeSlots : s <= r].conn = c]
         /\ last' = [last EXCEPT ![c] = "ok"]
         /\ pc' = [pc EXCEPT ![c] = "select"]
    ELSE /\ cars' = cars
         /\ last' = [last EXCEPT ![c] = "rejected"]
         /\ pc' = [pc EXCEPT ![c] = "signal"]

\* TyreChange, LapCompleted, SectorSplit, ... : update the car's runtime fields
Update(c) ==
    /\ cars' = IF GetCarByTCPConn(c) # NoCar
               THEN [cars EXCEPT ![GetCarByTCPConn(c)].data = 1]
               ELSE cars
    /\ last' = [last EXCEPT ![c] = "ok"]
    /\ pc' = [pc EXCEPT ![c] = "select"]

\* messageHandler.OnMessage(conn, p) and what Listen does with its result
\* (lines 180-183 and 145-153)
OnMessage(c, t, res) ==
    CASE res = "error" ->
            /\ cars' = cars
            /\ last' = [last EXCEPT ![c] = "handlerError"]
            /\ pc' = [pc EXCEPT ![c] = AfterError("handler")]
      [] res = "neterror" ->
            /\ cars' = cars
            /\ last' = [last EXCEPT ![c] = "handlerNetError"]
            /\ pc' = [pc EXCEPT ![c] = AfterError("permanent")]
      [] OTHER ->
            IF t = HandshakeType THEN Handshake(c) ELSE Update(c)

\* bytes one conn.Read(buf) may return for a buffer of msgLen bytes: nothing
\* for an empty buffer, otherwise any non-empty part of what has arrived
ReadSizes(c) ==
    IF msgLen[c] = 0 THEN {0} ELSE 1..Min(msgLen[c], Len(stream[c]))

\* handleConnection that reports a frame without a handler as a connection error
HandleConnectionUnknownFatal(c, n, res) ==
    /\ pc[c] = "readMsg"
    /\ n \in ReadSizes(c)
    /\ LET buf == SubSeq(stream[c], 1, n)
           t == MessageTypeOf(buf)
       IN /\ stream' = [stream EXCEPT ![c] = Drop(@, n)]
          /\ delivered' = [delivered EXCEPT ![c] = Append(@, <<t, n, msgLen[c]>>)]
          /\ IF t \in messageHandlers
             THEN OnMessage(c, t, res)
             ELSE /\ res = "ok"
                  /\ cars' = cars
                  /\ last' = [last EXCEPT ![c] = "unknown"]
                  /\ pc' = [pc EXCEPT ![c] = AfterError("permanent")]
    /\ UNCHANGED <<accepted, closer, blocked, reqs, transport, closeCalls, released, cleanups,
                   msgLen, carRef, sent>>
    /\ UNCHANGED others

\* handleConnection that registers a handler for a type it did not know
HandleConnectionRegistering(c, n, res) ==
    /\ pc[c] = "readMsg"
    /\ n \in ReadSizes(c)
    /\ LET buf == SubSeq(stream[c], 1, n)
           t == MessageTypeOf(buf)
       IN /\ stream' = [stream EXCEPT ![c] = Drop(@, n)]
          /\ delivered' = [delivered EXCEPT ![c] = Append(@, <<t, n, msgLen[c]>>)]
          /\ IF t \in messageHandlers
             THEN OnMessage(c, t, res) /\ handlerMap' = handlerMap
             ELSE /\ res = "ok"
                  /\ cars' = cars
                  /\ last' = [last EXCEPT ![c] = "unknown"]
                  /\ pc' = [pc EXCEPT ![c] = "select"]
                  /\ handlerMap' = Put(handlerMap, t, "Update")
    /\ UNCHANGED <<accepted, closer, blocked, reqs, transport, closeCalls, released, cleanups,
                   msgLen, carRef, sent>>
    /\ UNCHANGED <<reset, lvars, rvars>>

\* handleConnection (lines 163-191) and the caller's check of its result
\* (lines 145-153), for a conn.Read that succeeds
HandleConnection(c, n, res) ==
    /\ pc[c] = "readMsg"
    /\ n \in ReadSizes(c)
    /\ LET buf == SubSeq(stream[c], 1, n)
           t == MessageTypeOf(buf)
       IN /\ stream' = [stream EXCEPT ![c] = Drop(@, n)]
          /\ delivered' = [delivered EXCEPT ![c] = Append(@, <<t, n, msgLen[c]>>)]
          /\ IF t \in messageHandlers
             THEN OnMessage(c, t, res)
             ELSE /\ res = "ok"
                  /\ cars' = cars
                  /\ last' = [last EXCEPT ![c] = "unknown"]
                  /\ pc' = [pc EXCEPT ![c] = "select"]
    /\ UNCHANGED <<accepted, closer, blocked, reqs, transport, closeCalls, released, cleanups,
                   msgLen, carRef, sent>>
    /\ UNCHANGED others

\* handleConnection when conn.Read fails (lines 166-170, 145-153)
HandleConnectionError(c, kind) ==
    /\ pc[c] = "readMsg"
    /\ kind = "eof" => stream[c] = <<>>
    /\ last' = [last EXCEPT ![c] = kind]
    /\ pc' = [pc EXCEPT ![c] = AfterError(kind)]
    /\ UNCHANGED <<accepted, closer, blocked, reqs, transport, closeCalls, released, cleanups,
                   stream, msgLen, carRef, cars, sent, delivered>>
    /\ UNCHANGED others

\* ------------------------------------------------------ external actors
\* closeTCPConnection (lines 213-217) called from outside the owning task
\* (kick, ban): the send completes when the closer has room, else it blocks
RequestClose(c) ==
    /\ pc[c] # "idle"
    /\ reqs[c] < MaxCloseReqs
    /\ reqs' = [reqs EXCEPT ![c] = @ + 1]
    /\ IF closer[c] < CloserCap
       THEN closer' = [closer EXCEPT ![c] = @ + 1] /\ blocked' = blocked
       ELSE blocked' = [blocked EXCEPT ![c] = @ + 1] /\ closer' = closer
    /\ UNCHANGED <<accepted, pc, transport, closeCalls, released, cleanups, stream, msgLen,
                   carRef, cars, last, sent, delivered>>
    /\ UNCHANGED others

\* a sender blocked at line 215 proceeds once the closer has room
UnblockRequest(c) ==
    /\ blocked[c] > 0
    /\ closer[c] < CloserCap
    /\ closer' = [closer EXCEPT ![c] = @ + 1]
    /\ blocked' = [blocked EXCEPT ![c] = @ - 1]
    /\ UNCHANGED <<accepted, pc, reqs, transport, closeCalls, released, cleanups, stream,
                   msgLen, carRef, cars, last, sent, delivered>>
    /\ UNCHANGED others

\* ------------------------------------------------------------ Resolver
\* the connection manager's state, which the Resolver does not touch
tcp == <<accepted, pc, closer, blocked, reqs, transport, closeCalls, released, cleanups,
         stream, msgLen, carRef, cars, last, sent, delivered, handlerMap, reset, lvars>>

\* what a call leaves behind in the Resolver
Commit(s) ==
    /\ rFields' = s.fields
    /\ rBuilt' = s.built
    /\ rWired' = s.wired
    /\ rOverflow' = s.overflow

\* NewResolver (lines 56-72): initACSRClient, then initViewRenderer, which
\* resolves the server process as an argument of NewRenderer
NewResolver(storeOk, rendererOk, perf) ==
    /\ rPhase = "none"
    /\ rPerf' = perf
    /\ IF ~storeOk
       THEN /\ rPhase' = "failed"
            /\ UNCHANGED <<rFields, rBuilt, rWired, rOverflow>>
       ELSE LET s == ResolveAll([RState EXCEPT !.perf = perf], "viewRenderer",
                                Args("viewRenderer"), MaxDepth)
            IN IF s.overflow
               THEN Commit(s) /\ rPhase' = "crashed"
               ELSE IF ~rendererOk
               THEN Commit(s) /\ rPhase' = "failed"
               ELSE /\ Commit([s EXCEPT !.built["viewRenderer"] = @ + 1,
                                        !.fields["viewRenderer"] = s.built["viewRenderer"] + 1])
                    /\ rPhase' = "ready"
    /\ UNCHANGED rCalls
    /\ UNCHANGED tcp

\* resolve methods called directly on a Resolver that NewResolver returned
Entries ==
    {"raceControl", "serverProcess", "udpPluginAdapter", "raceManager",
     "penaltiesManager", "penaltiesHandler", "raceControlHandler", "healthCheck",
     "quickRaceHandler", "serverAdministrationHandler"}

\* one resolve method called from outside the Resolver
ResolveCall(c) ==
    /\ rPhase = "ready"
    /\ rCalls < MaxResolveCalls
    /\ rCalls' = rCalls + 1
    /\ LET s == Resolve(RState, c, MaxDepth)
       IN /\ Commit(s)
          /\ rPhase' = IF s.overflow THEN "crashed" ELSE rPhase
    /\ UNCHANGED rPerf
    /\ UNCHANGED tcp

\* ResolveRouter (lines 549-573): the arguments of Router
ResolveRouter ==
    /\ rPhase = "ready"
    /\ rCalls < MaxResolveCalls
    /\ rCalls' = rCalls + 1
    /\ LET s == ResolveAll(RState, "router", RouterHandlers, MaxDepth)
       IN /\ Commit(s)
          /\ rPhase' = IF s.overflow THEN "crashed" ELSE rPhase
    /\ UNCHANGED rPerf
    /\ UNCHANGED tcp

\* ------------------------------------------------------- specifications
TaskStep(c) ==
    \/ Select(c)
    \/ ReadLength(c)
    \/ \E n \in ReadSizes(c), res \in HandlerResults : HandleConnection(c, n, res)
    \/ Signal(c)
    \/ CloseTransport(c)
    \/ ReleaseCar(c)
    \/ DeferredClose(c)

Fault(c) ==
    \/ \E kind \in ErrKinds : ReadLengthError(c, kind)
    \/ \E kind \in ErrKinds : HandleConnectionError(c, kind)

Requests(c) ==
    \/ RequestClose(c)
    \/ UnblockRequest(c)

\* two connections, peers sending frames that hold a type byte only
Next ==
    \/ Accept(MaxConns)
    \/ \E c \in Conns : TaskStep(c) \/ Fault(c) \/ Requests(c)
    \/ \E c \in Conns, f \in ShortFrames : PeerSend(c, f, MaxFrames)

Spec == Init /\ [][Next]_vars

\* one connection, its peer sending frames with payloads that the transport
\* may deliver in parts
NextWire ==
    \/ Accept(1)
    \/ \E c \in Conns : TaskStep(c) \/ Fault(c) \/ Requests(c)
    \/ \E c \in Conns, f \in WireFrames : PeerSend(c, f, MaxWireFrames)

WireSpec == Init /\ [][NextWire]_vars

\* one connection, its peer sending frames that hold a type byte only
NextSolo ==
    \/ Accept(1)
    \/ \E c \in Conns : TaskStep(c) \/ Fault(c) \/ Requests(c)
    \/ \E c \in Conns, f \in ShortFrames : PeerSend(c, f, MaxFrames)

SoloSpec == Init /\ [][NextSolo]_vars

\* the scheduler runs every task that can take a step, and wakes a blocked
\* sender once the channel has room; peers and transports owe nothing
Fairness ==
    \A c \in Conns : WF_vars(TaskStep(c)) /\ WF_vars(UnblockRequest(c))

FairSpec == Init /\ [][Next]_vars /\ Fairness

\* a read on a connection the peer has reset fails with a *net.OpError that
\* is not temporary, whether or not bytes written before the reset are left
ResetFault(c) ==
    /\ reset[c]
    /\ \/ ReadLengthError(c, "permanent")
       \/ HandleConnectionError(c, "permanent")

\* two connections; the peer of one sends a truncated frame and resets, the
\* peer of the other sends whole frames; no other fault, no close request
NextScenario ==
    \/ Accept(MaxConns)
    \/ \E c \in Conns : TaskStep(c) \/ ResetFault(c)
    \/ \E t \in Bytes, rest \in [1..(ScenarioSent - 1) -> Bytes] : PeerTruncate(1, t, rest)
    \/ \E c \in Conns \ {1}, f \in ShortFrames : PeerSend(c, f, MaxFrames)

ScenarioSpec == Init /\ [][NextScenario]_vars

\* one connection and the listener: accept failures and TCP.Close() calls
NextShutdown ==
    \/ Accept(1)
    \/ \E c \in Conns : TaskStep(c) \/ Fault(c) \/ Requests(c)
    \/ \E c \in Conns, f \in ShortFrames : PeerSend(c, f, MaxFrames)
    \/ AcceptFault
    \/ AcceptClosed
    \/ AcceptSelect
    \/ TCPClose(MaxTCPCloses)
    \/ TCPCloseUnblock
    \/ TCPCloseListener

\* the scheduler runs the accept loop and the callers of Close(); an accept
\* on an open listener owes no failure
ShutdownFairness ==
    /\ Fairness
    /\ WF_vars(AcceptClosed)
    /\ WF_vars(AcceptSelect)
    /\ WF_vars(TCPCloseUnblock)
    /\ WF_vars(TCPCloseListener)

ShutdownSpec == Init /\ [][NextShutdown]_vars /\ ShutdownFairness

\* a Resolver from NewResolver and any resolve calls on it
NextResolver ==
    \/ \E storeOk \in BOOLEAN, rendererOk \in BOOLEAN, perf \in BOOLEAN :
          NewResolver(storeOk, rendererOk, perf)
    \/ \E c \in Entries : ResolveCall(c)
    \/ ResolveRouter

ResolverSpec == Init /\ [][NextResolver]_vars

\* --------------------------------------------------------------- claims
LoopPcs == {"select", "readLen", "readMsg"}
ExitPcs == {"deferred", "done"}

\* the task waits in a send on its own closer that nobody else receives from
Stuck(c) == pc[c] = "signal" /\ closer[c] >= CloserCap

\* C1: when the task has detected a permanent read error and an external
\* actor has requested close of the same connection, the cleanup path runs
\* exactly once: never twice, and the task is never left unable to reach it,
\* so a task that has exited has run it.
C1_CleanupExactlyOnce ==
    \A c \in Conns :
        (last[c] = "permanent" /\ reqs[c] > 0) =>
            /\ cleanups[c] <= 1
            /\ ~Stuck(c)
            /\ (pc[c] = "done" => cleanups[c] = 1)

\* C2: after a handler returned an error the read loop is still running: the
\* task is at the select or in one of the two reads of the next frame.
C2_HandlerErrorKeepsLoop ==
    \A c \in Conns :
        last[c] \in {"handlerError", "handlerNetError"} => pc[c] \in LoopPcs

\* C3: after a temporary read error the task is still in its loop with the
\* transport open; after a permanent one it is on the close-signal path and,
\* once it has exited, the cleanup has run.
C3_ErrorsClassified ==
    \A c \in Conns :
        /\ last[c] = "temporary" => (pc[c] \in LoopPcs /\ transport[c] = "open")
        /\ last[c] = "permanent" =>
              /\ pc[c] \notin {"readLen", "readMsg"}
              /\ (pc[c] = "done" => cleanups[c] = 1)

\* C4: every dispatch hands the handler exactly as many payload bytes as the
\* frame's length prefix declared.
C4_ExactPayload ==
    \A c \in Conns : \A i \in DOMAIN delivered[c] :
        delivered[c][i][2] = delivered[c][i][3]

\* C5: every occupied car slot is assigned to a connection whose task has not
\* terminated.
C5_NoSlotOfDeadTask ==
    \A s \in Slots : cars[s].conn # NoConn => pc[cars[s].conn] # "done"

\* a read or a handler of the task has failed
Faulted(c) == last[c] \in ErrKinds \cup {"handlerError", "handlerNetError"}

\* C6: once an external actor's close request has been accepted by the closer,
\* the connection's cleanup eventually runs, exactly once, whatever the peer
\* sends or does not send, as long as no read and no handler fails.
C6_RequestedCloseCleansUp ==
    \A c \in Conns :
        (reqs[c] > 0 /\ blocked[c] = 0) ~> (cleanups[c] = 1 \/ Faulted(c))

DeliveredTypes(c) == [i \in DOMAIN delivered[c] |-> delivered[c][i][1]]

IsPrefix(a, b) == Len(a) <= Len(b) /\ SubSeq(b, 1, Len(a)) = a

HasHandler(t) == t \in messageHandlers

\* C7: the handler invocations of a connection are, in order and without
\* repetition, a prefix of the frames its peer sent to registered handlers.
C7_OrderPreserved ==
    \A c \in Conns :
        IsPrefix(SelectSeq(DeliveredTypes(c), HasHandler), SelectSeq(sent[c], HasHandler))

\* C8: in the cleanup path the transport is never closed while the car slot
\* is still assigned to the connection.
C8_ReleaseBeforeClose ==
    \A c \in Conns :
        (cleanups[c] > 0 /\ transport[c] = "closed") => GetCarByTCPConn(c) = NoCar

\* C9 as stated: conn.Close() is invoked at most once per connection.
C9_CloseInvokedAtMostOnce ==
    \A c \in Conns : closeCalls[c] <= 1

\* C9 as amended: conn.Close() is invoked at most twice per connection (once
\* in the closer branch, once deferred) and only one invocation finds the
\* transport open, so the transport is released at most once.
C9_ReleasedAtMostOnce ==
    \A c \in Conns : closeCalls[c] <= 2 /\ released[c] <= 1

\* the closer branch and the deferred call have both closed the connection
C9_Witness ==
    \E c \in Conns :
        pc[c] = "done" /\ cleanups[c] = 1 /\ closeCalls[c] = 2 /\ released[c] = 1

\* C10: after a connection's cleanup has run, the slot it held reports the
\* empty default in every field for as long as no handshake has taken it.
C10_SlotResetOnCleanup ==
    \A c \in Conns :
        (cleanups[c] = 1 /\ pc[c] \in ExitPcs /\ carRef[c] # NoCar
            /\ cars[carRef[c]].conn = NoConn) => cars[carRef[c]] = EmptyCar

\* C11: a frame whose message type has no registered handler is never fatal:
\* the step that dispatches it records it as unknown and takes the task back
\* to the select of its loop, sends nothing on the closer, leaves the
\* transport open and closes nothing.
C11_UnknownNotFatal ==
    [][\A c \in Conns :
          (/\ Len(delivered'[c]) > Len(delivered[c])
           /\ delivered'[c][Len(delivered'[c])][1] \notin messageHandlers)
          => /\ last'[c] = "unknown"
             /\ pc'[c] = "select"
             /\ closer'[c] = closer[c]
             /\ transport'[c] = "open"
             /\ closeCalls'[c] = closeCalls[c]
             /\ cars' = cars]_vars

\* after a frame without a handler the task is reading the next frame
C11_Witness ==
    \E c \in Conns :
        /\ last[c] = "unknown"
        /\ pc[c] = "readLen"
        /\ transport[c] = "open"
        /\ closer[c] = 0
        /\ delivered[c] # <<>>

\* C12: the accept loop tells a shutdown from a real accept failure.  When the
\* loop handles an accept failure after Close() has been called it returns
\* without logging, otherwise it logs the failure and accepts again; it never
\* stops without Close() having been called; and once Close() has been called
\* it eventually stops.
C12_ShutdownDiscrimination ==
    /\ [][(acceptPc = "failed" /\ acceptPc' # "failed") =>
             IF tcpCloses > 0
             THEN acceptPc' = "stopped" /\ lastAccept' = "silent"
             ELSE acceptPc' = "accepting" /\ lastAccept' = "logged"]_vars
    /\ [](acceptPc = "stopped" => tcpCloses > 0)
    /\ (tcpCloses > 0) ~> (acceptPc = "stopped")

\* Close() has closed the listener and the accept loop has returned silently
C12_Witness ==
    /\ tcpCloses > 0
    /\ listener = "closed"
    /\ acceptPc = "stopped"
    /\ lastAccept = "silent"

\* C13: every step of TCP.Close() (the send on t.closed, blocked or not, and
\* the close of the listener) leaves every accepted connection as it was: its
\* task's position, its closer, its transport, its car slot and what its
\* peer has sent.
C13_CloseLeavesConnections ==
    [][(\/ tcpCloses' # tcpCloses
        \/ closeWait' # closeWait
        \/ closeSent' # closeSent
        \/ listener' # listener)
       => UNCHANGED <<pc, closer, blocked, transport, closeCalls, released, cleanups,
                      stream, msgLen, carRef, cars, last, delivered>>]_vars

\* the listener is closed and the accept loop has stopped while a connection
\* holds its slot with its transport open and its task in the read loop
C13_Witness ==
    /\ listener = "closed"
    /\ acceptPc = "stopped"
    /\ \E c \in Conns :
          /\ pc[c] \in LoopPcs
          /\ transport[c] = "open"
          /\ closer[c] = 0
          /\ GetCarByTCPConn(c) # NoCar

\* C16: TCP.Close() returns to its caller without blocking, however many
\* times it is called and whether or not the accept loop still receives from
\* t.closed: no caller is ever waiting in the send on t.closed.
C16_CloseNeverBlocks == closeWait = 0

\* C14: failures are isolated.  A step that belongs to one connection (a read
\* error of either kind, a handler error, an unknown message, a close request
\* and the cleanup or exit that follows) leaves the accept loop where it is
\* and leaves every other connection's task position, closer, transport and
\* car slot untouched.
C14_FailureIsolation ==
    [][\A c \in Conns :
          (\/ pc'[c] # pc[c]
           \/ last'[c] # last[c]
           \/ closer'[c] # closer[c]
           \/ transport'[c] # transport[c])
          => /\ acceptPc' = acceptPc
             /\ listener' = listener
             /\ \A d \in Conns \ {c} :
                   /\ pc'[d] = pc[d]
                   /\ closer'[d] = closer[d]
                   /\ transport'[d] = transport[d]
                   /\ closeCalls'[d] = closeCalls[d]
                   /\ \A s \in Slots : cars[s].conn = d => cars'[s].conn = d]_vars

\* one connection has failed and is gone while another still holds its slot
\* with its transport open and its task in the read loop
C14_Witness ==
    \E c \in Conns, d \in Conns :
        /\ c # d
        /\ pc[c] = "done"
        /\ Faulted(c)
        /\ pc[d] \in LoopPcs
        /\ transport[d] = "open"
        /\ GetCarByTCPConn(d) # NoCar
        /\ acceptPc = "accepting"

\* C15: a connection whose peer declared a frame of 10 bytes, sent 3 of them
\* and reset has, when its task is gone, seen a permanent transport error as
\* the task's last event and run the close-signal cleanup exactly once, and
\* the other connection has had no cleanup and no failure.
C15_TruncatedFrameClosesOnce ==
    \A c \in Conns :
        (reset[c] /\ pc[c] = "done") =>
            /\ last[c] = "permanent"
            /\ cleanups[c] = 1
            /\ \A d \in Conns \ {c} : cleanups[d] = 0 /\ ~Faulted(d)

\* C17: the dispatcher is fixed after construction.  In every state its keys
\* are the declared types of the handlers of initMessageHandlers, and each
\* type maps to the last handler of the list that declares it; Listen,
\* handleConnection, Close and the connection events never change that.
C17_DispatcherFixed ==
    /\ DOMAIN handlerMap = {Handlers[i].type : i \in DOMAIN Handlers}
    /\ \A i \in DOMAIN Handlers :
          (\A j \in DOMAIN Handlers : j > i => Handlers[j].type # Handlers[i].type)
              => handlerMap[Handlers[i].type] = Handlers[i].name

\* frames with and without a handler have been dispatched and Close() has
\* stopped the accept loop
C17_Witness ==
    /\ acceptPc = "stopped"
    /\ listener = "closed"
    /\ \E c \in Conns :
          /\ delivered[c] # <<>>
          /\ last[c] \in {"ok", "unknown"}
          /\ pc[c] = "readLen"

\* C18: requesting close never blocks the requester and never deadlocks the
\* owning task: no external caller of closeTCPConnection is waiting in its
\* send, and the task is never waiting in a send on its own full closer.
C18_CloseRequestNeverBlocks ==
    \A c \in Conns : blocked[c] = 0 /\ ~Stuck(c)

\* the components of the dependency cycle
Cycle == {"serverProcess", "udpPluginAdapter", "raceManager", "raceControl"}

\* C19: the Resolver hands out one shared PenaltiesManager: at most one is
\* ever constructed, and the instance RaceControl was given is the instance
\* PenaltiesHandler was given.
C19_SinglePenaltiesManager ==
    /\ rBuilt["penaltiesManager"] <= 1
    /\ (/\ rWired[<<"raceControl", "penaltiesManager">>] # Nil
        /\ rWired[<<"penaltiesHandler", "penaltiesManager">>] # Nil)
       => rWired[<<"raceControl", "penaltiesManager">>]
            = rWired[<<"penaltiesHandler", "penaltiesManager">>]

\* C20: the dependency cycle resolves without running out of stack, and on a
\* Resolver from NewResolver, whatever resolve calls follow, exactly one
\* ServerProcess, UDPPluginAdapter, RaceManager and RaceControl has been
\* constructed, it is the memoized one, and it is the one every consumer
\* built so far was given.
C20_CycleResolvesOnce ==
    /\ ~rOverflow
    /\ rPhase # "crashed"
    /\ rPhase = "ready" =>
          \A c \in Cycle :
              /\ rBuilt[c] = 1
              /\ rFields[c] = 1
              /\ \A e \in Edges : e[2] = c => rWired[e] \in {Nil, 1}

\* the router has been resolved after NewResolver: every consumer of the
\* four components exists and holds the one instance
C20_Witness ==
    /\ rPhase = "ready"
    /\ rCalls > 0
    /\ rFields["serverAdministrationHandler"] # Nil
    /\ rFields["healthCheck"] # Nil
    /\ \A c \in Cycle : rBuilt[c] = 1
    /\ rWired[<<"serverProcess", "udpPluginAdapter">>] = 1
    /\ rWired[<<"raceManager", "serverProcess">>] = 1
    /\ rWired[<<"healthCheck", "raceControl">>] = 1

====
